---- MODULE Spec2Model ----
(***************************************************************************)
(* State-machine model of the personal finance ledger (src/ledger.py):     *)
(* the PersonalFinanceLedger store, the two files it touches and the       *)
(* command loop of run_cli.                                                *)
(*                                                                         *)
(* Amounts entered at the prompt are counted in mills (1/1000 of the       *)
(* currency unit); amounts stored in a transaction are counted in cents,   *)
(* which is what round(amount, 2) produces.  A transaction is a Python     *)
(* dict: a record whose DOMAIN is the set of keys it has, so t["id"]       *)
(* raises KeyError exactly when "id" \notin DOMAIN t.  The date, category  *)
(* and description keys are written once by add_transaction and only       *)
(* copied afterwards; they are left out of the records.                    *)
(***************************************************************************)
EXTENDS Integers, Sequences, FiniteSets, TLC

VARIABLES
    pc,            \* "ready": run_cli is in its while loop; "exited"; "crashed"
    transactions,  \* self.transactions
    next_id,       \* self._next_id
    files,         \* the file system: path -> content
    shown,         \* the numbers the last summary / balance command rendered
    last,          \* the last command and how it ended
    assigned       \* history: the ids add_transaction has handed out, in order

vars == <<pc, transactions, next_id, files, shown, last, assigned>>

ledger == <<transactions, next_id, files>>

---------------------------------------------------------------------------
(* Bounds *)

\* add_transaction calls over the whole history (all process runs).
MaxAdds == 2

\* Amounts typed at "Enter Amount", in mills: 0.000, 0.004, 0.016.
EnteredAmounts == {0, 4, 16}

\* Ids typed at the delete prompt.
DeleteIds == {1, 2}

MainFile == "ledger_data.json"
OtherFile == "export.json"
\* File names typed at the import prompt, and at the export prompt.
Paths == {MainFile, OtherFile}
ExportPaths == {OtherFile}

\* How a write of a file can end: done, or IOError raised while writing
\* (disk full), after open(path, "w") has truncated the file.
WriteOutcomes == {"ok", "failed"}

---------------------------------------------------------------------------
(* File contents and JSON *)

Absent == [kind |-> "absent"]
Corrupt == [kind |-> "corrupt"]
JsonText(doc) == [kind |-> "json", doc |-> doc]

NonList == [top |-> "other"]
JsonList(items) == [top |-> "list", items |-> items]
Scalar == [k |-> "scalar"]

\* repr of a float holding c cents: the integer part and the two-digit
\* fraction of the decimal literal.
DumpAmount(c) == <<c \div 100, c % 100>>

LoadAmount(lit) == lit[1] * 100 + lit[2]

\* A variant of DumpObject that writes amounts as whole units.
DumpObjectTruncating(t) ==
    [k |-> "object",
     id |-> IF "id" \in DOMAIN t THEN <<t.id>> ELSE <<>>,
     type |-> t.type,
     amount |-> <<t.amount \div 100, 0>>]

\* json.dump of one dict: the object's members as text.
DumpObject(t) ==
    [k |-> "object",
     id |-> IF "id" \in DOMAIN t THEN <<t.id>> ELSE <<>>,
     type |-> t.type,
     amount |-> DumpAmount(t.amount)]

\* json.dump(self.transactions, f, indent=4)
json_dump(ts) == JsonList([i \in 1 .. Len(ts) |-> DumpObject(ts[i])])

\* json.load of one element of a list.
LoadItem(o) ==
    IF o.k # "object" THEN Scalar
    ELSE IF o.id = <<>>
         THEN [type |-> o.type, amount |-> LoadAmount(o.amount)]
         ELSE [id |-> o.id[1], type |-> o.type, amount |-> LoadAmount(o.amount)]

\* json.load of a document whose top level is a list.
json_load(doc) == [i \in 1 .. Len(doc.items) |-> LoadItem(doc.items[i])]

Obj(id, type, cents) ==
    [k |-> "object", id |-> <<id>>, type |-> type, amount |-> DumpAmount(cents)]
ObjNoId(type, cents) ==
    [k |-> "object", id |-> <<>>, type |-> type, amount |-> DumpAmount(cents)]

\* What a file can hold before the program first touches it.
InitialFiles ==
    { Absent,
      Corrupt,
      JsonText(NonList),
      JsonText(JsonList(<<Scalar>>)),
      JsonText(JsonList(<<ObjNoId("income", 150)>>)),
      JsonText(JsonList(<<Obj(1, "income", 150), Obj(1, "expense", 25)>>)) }

---------------------------------------------------------------------------
(* Pure helpers of the ledger *)

\* A variant of the shape check that looks at the top level only.
IsListOfDictsTopOnly(doc) == doc.top = "list"

\* isinstance(imported_data, list) and all(isinstance(d, dict) for d in ...)
IsListOfDicts(doc) ==
    /\ doc.top = "list"
    /\ \A i \in 1 .. Len(doc.items) : doc.items[i].k = "object"

HasId(t) == "id" \in DOMAIN t

AllHaveId(ts) == \A i \in 1 .. Len(ts) : HasId(ts[i])

SetMax(S) == CHOOSE x \in S : \A y \in S : y <= x

\* max((t["id"] for t in self.transactions), default=0) + 1
NextIdOf(ts) ==
    IF Len(ts) = 0 THEN 1
    ELSE SetMax({ts[i].id : i \in 1 .. Len(ts)}) + 1

\* round(amount, 2): mills to cents, to the nearest cent; an exact tie goes
\* to the even neighbour.
Round2(m) ==
    LET q == m \div 10
        r == m % 10
    IN  IF r < 5 THEN q
        ELSE IF r > 5 THEN q + 1
        ELSE IF q % 2 = 0 THEN q ELSE q + 1

RECURSIVE SumOf(_, _)
\* The running total of the amounts of the transactions of one type.
SumOf(ts, type) ==
    IF Len(ts) = 0 THEN 0
    ELSE SumOf(SubSeq(ts, 1, Len(ts) - 1), type)
         + (IF ts[Len(ts)].type = type THEN ts[Len(ts)].amount ELSE 0)

RECURSIVE BalanceLoopAdding(_)
\* A variant of the loop that adds expenses instead of subtracting them.
BalanceLoopAdding(ts) ==
    IF Len(ts) = 0 THEN 0
    ELSE LET tx == ts[Len(ts)]
             rest == BalanceLoopAdding(SubSeq(ts, 1, Len(ts) - 1))
         IN  IF tx.type = "income" THEN rest + tx.amount
             ELSE IF tx.type = "expense" THEN rest + tx.amount
             ELSE rest

RECURSIVE BalanceLoop(_)
\* The loop of calculate_balance: += for income, -= for expense.
BalanceLoop(ts) ==
    IF Len(ts) = 0 THEN 0
    ELSE LET tx == ts[Len(ts)]
             rest == BalanceLoop(SubSeq(ts, 1, Len(ts) - 1))
         IN  IF tx.type = "income" THEN rest + tx.amount
             ELSE IF tx.type = "expense" THEN rest - tx.amount
             ELSE rest

calculate_balance(ts) == BalanceLoop(ts)

generate_summary(ts) ==
    [income |-> SumOf(ts, "income"), expense |-> SumOf(ts, "expense")]

\* A variant of the save that writes only the newest transaction.
SavedTextLastOnly(ts) ==
    JsonText(json_dump(IF Len(ts) = 0 THEN ts ELSE <<ts[Len(ts)]>>))

\* What _save_transactions writes: the whole list.
SavedText(ts) == JsonText(json_dump(ts))

\* open(path, "w") followed by a write of text, ending as w says: a write
\* cut short leaves text that no longer decodes.
WriteFile(fs, path, text, w) ==
    IF w = "ok" THEN [fs EXCEPT ![path] = text]
    ELSE [fs EXCEPT ![path] = Corrupt]

\* _save_transactions: IOError is caught and reported.
SaveTransactions(fs, ts, w) == WriteFile(fs, MainFile, SavedText(ts), w)

\* What is remembered of a command: its name, how it ended, the file name
\* and the number typed at its prompts, how its write ended, and (history,
\* import only) the file name of a successful export that came right before.
Cmd(op, res, path, num, write) ==
    [op |-> op, res |-> res, path |-> path, num |-> num, write |-> write,
     after |-> ""]

ImportCmd(prev, res, path, write) ==
    [Cmd("import", res, path, 0, write) EXCEPT
        !.after = IF prev.op = "export" /\ prev.res = "ok" THEN prev.path ELSE ""]

NothingShown == <<>>

---------------------------------------------------------------------------
(* Process start: run_cli constructs the ledger from the main file *)

\* PersonalFinanceLedger(): TRUE when _load_transactions and the next-id
\* computation both return.
ConstructorReturns(f) ==
    \/ f.kind \in {"absent", "corrupt"}
    \/ /\ f.kind = "json"
       /\ IsListOfDicts(f.doc)
       /\ AllHaveId(json_load(f.doc))

LoadedTransactions(f) ==
    IF f.kind = "json" THEN json_load(f.doc) ELSE <<>>

LoadResult(f) ==
    IF f.kind = "absent" THEN "fresh"
    ELSE IF f.kind = "corrupt" THEN "corrupt"
    ELSE "ok"

\* The state run_cli is in when it reaches (or fails to reach) its loop:
\* an exception of the constructor is caught nowhere and ends the process.
Launch(f) ==
    IF ConstructorReturns(f)
    THEN [pc |-> "ready",
          transactions |-> LoadedTransactions(f),
          next_id |-> NextIdOf(LoadedTransactions(f)),
          last |-> Cmd("load", LoadResult(f), "", 0, "none")]
    ELSE [pc |-> "crashed",
          transactions |-> <<>>,
          next_id |-> 1,
          last |-> Cmd("load", "crash", "", 0, "none")]

Init ==
    /\ files \in [Paths -> InitialFiles]
    /\ shown = NothingShown
    /\ assigned = <<>>
    /\ pc = Launch(files[MainFile]).pc
    /\ transactions = Launch(files[MainFile]).transactions
    /\ next_id = Launch(files[MainFile]).next_id
    /\ last = Launch(files[MainFile]).last

\* The program is started again after it ended.
Restart ==
    /\ pc \in {"exited", "crashed"}
    /\ pc' = Launch(files[MainFile]).pc
    /\ transactions' = Launch(files[MainFile]).transactions
    /\ next_id' = Launch(files[MainFile]).next_id
    /\ last' = Launch(files[MainFile]).last
    /\ shown' = NothingShown
    /\ UNCHANGED <<files, assigned>>

---------------------------------------------------------------------------
(* The commands of the loop *)

\* handle_add, then add_transaction when the amount is accepted.
handle_add ==
    /\ pc = "ready"
    /\ \E tx_type \in {"income", "expense"}, amount \in EnteredAmounts,
          w \in WriteOutcomes :
         IF amount <= 0
         THEN /\ last' = Cmd("add", "cancelled", "", amount, "none")
              /\ UNCHANGED <<transactions, next_id, files, assigned>>
         ELSE /\ Len(assigned) < MaxAdds
              /\ transactions' =
                     Append(transactions,
                            [id |-> next_id, type |-> tx_type,
                             amount |-> Round2(amount)])
              /\ next_id' = next_id + 1
              /\ files' = SaveTransactions(files, transactions', w)
              /\ assigned' = Append(assigned, next_id)
              /\ last' = Cmd("add", "ok", "", amount, w)
    /\ shown' = NothingShown
    /\ UNCHANGED pc

\* [t for t in self.transactions if t["id"] != tx_id]
WithoutId(ts, tx_id) == SelectSeq(ts, LAMBDA t : t.id # tx_id)

\* handle_delete and delete_transaction.  The comprehension reads t["id"] of
\* every element; the KeyError of an element without that key leaves the
\* method before any assignment and is caught by the loop.
handle_delete ==
    /\ pc = "ready"
    /\ \E tx_id \in DeleteIds, w \in WriteOutcomes :
         IF ~AllHaveId(transactions)
         THEN /\ last' = Cmd("delete", "KeyError", "", tx_id, "none")
              /\ UNCHANGED <<transactions, files>>
         ELSE IF Len(WithoutId(transactions, tx_id)) < Len(transactions)
         THEN /\ transactions' = WithoutId(transactions, tx_id)
              /\ files' = SaveTransactions(files, transactions', w)
              /\ last' = Cmd("delete", "deleted", "", tx_id, w)
         ELSE /\ transactions' = WithoutId(transactions, tx_id)
              /\ last' = Cmd("delete", "notfound", "", tx_id, "none")
              /\ UNCHANGED <<files>>
    /\ shown' = NothingShown
    /\ UNCHANGED <<pc, next_id, assigned>>

\* handle_summary: generate_summary, then calculate_balance.
handle_summary ==
    /\ pc = "ready"
    /\ shown' = <<generate_summary(transactions).income,
                  generate_summary(transactions).expense,
                  calculate_balance(transactions)>>
    /\ last' = Cmd("summary", "ok", "", 0, "none")
    /\ UNCHANGED <<pc, transactions, next_id, files, assigned>>

\* handle_balance.
handle_balance ==
    /\ pc = "ready"
    /\ shown' = <<calculate_balance(transactions)>>
    /\ last' = Cmd("balance", "ok", "", 0, "none")
    /\ UNCHANGED <<pc, transactions, next_id, files, assigned>>

\* handle_export and export_data.
handle_export ==
    /\ pc = "ready"
    /\ \E filename \in ExportPaths, w \in WriteOutcomes :
         /\ files' = WriteFile(files, filename, JsonText(json_dump(transactions)), w)
         /\ last' = Cmd("export", IF w = "ok" THEN "ok" ELSE "IOError",
                        filename, 0, w)
    /\ shown' = NothingShown
    /\ UNCHANGED <<pc, transactions, next_id, assigned>>

\* handle_import and import_data.  The KeyError of a payload element without
\* "id" is raised after self.transactions was assigned and is caught by the
\* loop only.
handle_import ==
    /\ pc = "ready"
    /\ \E filename \in Paths, w \in WriteOutcomes :
         LET f == files[filename] IN
         IF f.kind = "absent"
         THEN /\ last' = ImportCmd(last, "FileNotFound", filename, "none")
              /\ UNCHANGED <<transactions, next_id, files>>
         ELSE IF f.kind = "corrupt"
         THEN /\ last' = ImportCmd(last, "DecodeError", filename, "none")
              /\ UNCHANGED <<transactions, next_id, files>>
         ELSE IF ~IsListOfDicts(f.doc)
         THEN /\ last' = ImportCmd(last, "ValueError", filename, "none")
              /\ UNCHANGED <<transactions, next_id, files>>
         ELSE /\ transactions' = json_load(f.doc)
              /\ IF AllHaveId(transactions')
                 THEN /\ next_id' = NextIdOf(transactions')
                      /\ files' = SaveTransactions(files, transactions', w)
                      /\ last' = ImportCmd(last, "ok", filename, w)
                 ELSE /\ last' = ImportCmd(last, "KeyError", filename, "none")
                      /\ UNCHANGED <<next_id, files>>
    /\ shown' = NothingShown
    /\ UNCHANGED <<pc, assigned>>

\* handle_view: renders, changes nothing.
handle_view ==
    /\ pc = "ready"
    /\ last' = Cmd("view", "ok", "", 0, "none")
    /\ shown' = NothingShown
    /\ UNCHANGED <<pc, transactions, next_id, files, assigned>>

\* Input that is no command name: reported, and the loop goes on.
UnknownCommand ==
    /\ pc = "ready"
    /\ last' = Cmd("unknown", "reported", "", 0, "none")
    /\ shown' = NothingShown
    /\ UNCHANGED <<pc, transactions, next_id, files, assigned>>

\* exit / quit: the only break of the loop.
ExitCommand ==
    /\ pc = "ready"
    /\ pc' = "exited"
    /\ last' = Cmd("exit", "ok", "", 0, "none")
    /\ shown' = NothingShown
    /\ UNCHANGED <<transactions, next_id, files, assigned>>

Next ==
    \/ handle_add
    \/ handle_delete
    \/ handle_summary
    \/ handle_balance
    \/ handle_export
    \/ handle_import
    \/ handle_view
    \/ UnknownCommand
    \/ ExitCommand
    \/ Restart

Spec == Init /\ [][Next]_vars

---------------------------------------------------------------------------
(* Properties *)

Ids(ts) == {ts[i].id : i \in 1 .. Len(ts)}

\* C1: in every state of the running ledger all ids of the transaction
\* sequence are pairwise distinct and each is a positive integer.
C1_IdsUniqueAndPositive ==
    pc = "ready" =>
        /\ AllHaveId(transactions)
        /\ \A i \in 1 .. Len(transactions) : transactions[i].id > 0
        /\ \A i, j \in 1 .. Len(transactions) :
               i # j => transactions[i].id # transactions[j].id

\* C2: every id add_transaction assigns is strictly greater than every id
\* an earlier add_transaction assigned, across deletes, imports and restarts.
C2_IdsNeverReused ==
    \A i, j \in 1 .. Len(assigned) : i < j => assigned[i] < assigned[j]

\* C3: in every state of the running ledger calculate_balance() equals
\* generate_summary()['income'] - generate_summary()['expense'], the summary
\* and balance commands render exactly these numbers, and neither changes
\* the transactions, next_id or the files.
C3_BalanceEqualsSummary ==
    /\ [](pc = "ready" =>
             calculate_balance(transactions)
                 = generate_summary(transactions).income
                   - generate_summary(transactions).expense)
    /\ [][(last'.op = "summary" =>
               /\ UNCHANGED ledger
               /\ shown'[3] = shown'[1] - shown'[2]
               /\ shown'[1] = generate_summary(transactions).income
               /\ shown'[2] = generate_summary(transactions).expense)
          /\ (last'.op = "balance" =>
               /\ UNCHANGED ledger
               /\ shown'[1] = generate_summary(transactions).income
                              - generate_summary(transactions).expense)]_vars

\* A summary was rendered for a ledger that holds income and expense, an
\* added transaction among them.
C3_Witness ==
    /\ pc = "ready"
    /\ last.op = "summary"
    /\ shown[1] > 0
    /\ shown[2] > 0
    /\ \E i \in 1 .. Len(transactions) :
           /\ HasId(transactions[i])
           /\ \E k \in 1 .. Len(assigned) : assigned[k] = transactions[i].id

NoneCarries(ts, tx_id) ==
    \A i \in 1 .. Len(ts) : ~(HasId(ts[i]) /\ ts[i].id = tx_id)

\* C4: delete_transaction with an id that no transaction carries returns
\* False (not found) and leaves transactions, next_id and the files as they
\* were.
C4_DeleteMissingIdReportsNotFound ==
    [][(last'.op = "delete" /\ NoneCarries(transactions, last'.num)) =>
           (last'.res = "notfound" /\ UNCHANGED ledger)]_vars

\* C5: a successful export_data(path) followed at once by import_data(path)
\* leaves the transaction sequence as it was before the export.
C5_ExportImportRoundTrip ==
    [][(/\ last.op = "export"
        /\ last.res = "ok"
        /\ last'.op = "import"
        /\ last'.path = last.path) => transactions' = transactions]_vars

\* An import of the file just exported has run, for a ledger of at least
\* two transactions, one of them with a non-zero fraction of cents.
C5_Witness ==
    /\ pc = "ready"
    /\ last.op = "import"
    /\ last.after = last.path
    /\ Len(transactions) >= 2
    /\ \E i \in 1 .. Len(transactions) : transactions[i].amount % 100 # 0

\* The source fails import_data's validation: missing, not decodable, or
\* not a list whose elements are all objects.
InvalidSource(f) ==
    \/ f.kind \in {"absent", "corrupt"}
    \/ /\ f.kind = "json"
       /\ \/ f.doc.top # "list"
          \/ \E i \in 1 .. Len(f.doc.items) : f.doc.items[i].k # "object"

\* C6: import_data on a source that fails validation reports an error and
\* leaves transactions, next_id and the files unchanged.
C6_InvalidImportChangesNothing ==
    [][(last'.op = "import" /\ InvalidSource(files[last'.path])) =>
           /\ last'.res \in {"FileNotFound", "DecodeError", "ValueError"}
           /\ UNCHANGED ledger]_vars

\* An import of a list holding a non-object was rejected by a ledger that
\* holds transactions.
C6_Witness ==
    /\ pc = "ready"
    /\ last.op = "import"
    /\ last.res = "ValueError"
    /\ files[last.path] = JsonText(JsonList(<<Scalar>>))
    /\ Len(transactions) > 0

\* C7: the add command stores a strictly positive amount, and an entered
\* amount that is not greater than zero changes nothing.
C7_AddStoresPositiveAmount ==
    [][last'.op = "add" =>
           IF last'.num > 0
           THEN /\ Len(transactions') = Len(transactions) + 1
                /\ transactions'[Len(transactions')].amount > 0
           ELSE UNCHANGED ledger]_vars

\* C8: the process is in its command loop unless exit or quit was entered.
C8_OnlyExitEndsTheProcess ==
    pc # "ready" => (pc = "exited" /\ last.op = "exit")

C10_ImportAllOrNothing ==
    [][last'.op = "import" =>
           \/ UNCHANGED <<transactions, next_id>>
           \/ /\ ~InvalidSource(files[last'.path])
              /\ transactions' = json_load(files[last'.path].doc)
              /\ AllHaveId(transactions')
              /\ next_id' = NextIdOf(transactions')
              /\ files'[MainFile] = JsonText(json_dump(transactions'))]_vars

====
